---- MODULE Spec2Model ----
(***************************************************************************)
(* Voxel backprojection of cryodrgn (commands/backproject_voxel.py):       *)
(* the 8-corner distance splat add_slice, the regulariser                  *)
(* regularize_volume and the reconstruction loop of main.                  *)
(*                                                                         *)
(* Numbers.  Coordinates are multiples of 1/CoordRes of a voxel and are    *)
(* held as integers (coordinate * CoordRes).  A splat weight w is held as  *)
(* the integer w * WOne, the square root of line 146 being rounded to the  *)
(* nearest multiple of 1/WOne.  Grid entries are integers in units of      *)
(* 1/WOne.  The regulariser works on exact fractions <<num, den>>, with    *)
(* den = 0 for the non-finite values a float division by zero produces.    *)
(***************************************************************************)
EXTENDS Integers, Sequences, FiniteSets, TLC

VARIABLES
  D,                  \* the grid side
  pc,                 \* the position of the run
  ff_in,              \* add_slice: the slice passed in, a sequence of samples
  volume, counts,     \* the grids passed to add_slice or regularize_volume
  acc,                \* add_slice: the indices and weights of the last call
  reg_weight,         \* regularize_volume: its reg_weight argument
  regularized_counts, \* regularize_volume: its local of the last call
  ret,                \* regularize_volume: the calls made and what each returned
  args,               \* main: the parsed command line
  data,               \* main: the images, each the slice it yields at line 294
  iterator,           \* main: the image indices of the loop of line 261
  i,                  \* main: the number of loop passes completed
  volume_full, counts_full,     \* main: the three streams of lines 254-259
  volume_half1, counts_half1,
  volume_half2, counts_half2,
  inserted,           \* main: the add_slice calls made, <<image index, stream>>
  zero_w,             \* main: per stream, the voxels whose weight line 309-311 floored
  written,            \* main: the files written
  Apix,               \* main: the pixel size of line 242
  fsc_vals,           \* main: the FSC curve of each mask label
  fsc_thresh,         \* main: the threshold of each curve
  fsc_angs,           \* main: the resolution of each curve
  inv_args,           \* invert_contrast: the parsed command line
  input,              \* invert_contrast: the input file
  header, src,        \* invert_contrast: the header and the image source
  out_f,              \* invert_contrast: the output file
  chunk_no            \* invert_contrast: the chunks written

sliceVars == <<ff_in, acc>>
regVars == <<reg_weight, ret>>
streamVars == <<volume_full, counts_full, volume_half1, counts_half1,
                volume_half2, counts_half2>>
mainVars == <<args, iterator, i, inserted, zero_w, written>>
fscVars == <<Apix, fsc_vals, fsc_thresh, fsc_angs>>
invVars == <<inv_args, input, header, src, out_f, chunk_no>>

vars == <<D, pc, volume, counts, regularized_counts, data, sliceVars, regVars,
          streamVars, mainVars, fscVars, invVars>>

(***************************************************************************)
(* Bounds of the model.                                                    *)
(***************************************************************************)
MaxD == 3
CoordRes == 3
WPrec == 4
MaxImg == 2

WOne == WPrec * CoordRes

\* <<ff, ctf_mul>> of a sample: a pixel value and its (real, signed) weight
Kinds == {<<2, -1>>, <<-1, 2>>, <<2, 0>>}

(***************************************************************************)
(* add_slice                                                               *)
(***************************************************************************)
Axes == 1..3

\* d2 = int(D / 2)
d2Of(D_) == D_ \div 2

\* torch.clip of one component
Clip(x, lo, hi) == IF x < lo THEN lo ELSE IF x > hi THEN hi ELSE x

ClipCoordNoClip(c, D_) == c

\* ff_coord.transpose(0, 1).clip(-d2, d2)
ClipCoord(c, D_) ==
  LET lo == (0 - d2Of(D_)) * CoordRes
      hi == d2Of(D_) * CoordRes
  IN <<Clip(c[1], lo, hi), Clip(c[2], lo, hi), Clip(c[3], lo, hi)>>

\* ff_coord.floor().long() and ff_coord.ceil().long(), in voxels
Floor(x) == x \div CoordRes
Ceil(x) == 0 - ((0 - x) \div CoordRes)

\* The eight add_for_corner calls in the order of lines 151-158; per axis
\* (x, y, z): 0 is the floor, 1 the ceil.
CornerCalls ==
  << <<0, 0, 0>>, <<1, 0, 0>>, <<0, 1, 0>>, <<0, 0, 1>>,
     <<1, 1, 0>>, <<0, 1, 1>>, <<1, 0, 1>>, <<1, 1, 1>> >>

NCorners == Len(CornerCalls)

\* (xi, yi, zi) of one sample for one add_for_corner call; c is clipped
CornerOf(c, k) ==
  LET at(a) == IF CornerCalls[k][a] = 0 THEN Floor(c[a]) ELSE Ceil(c[a])
  IN <<at(1), at(2), at(3)>>

\* dist.pow(2).sum(0), in units of 1/CoordRes^2
Dist2(corner, c) ==
  LET d(a) == corner[a] * CoordRes - c[a]
  IN d(1) * d(1) + d(2) * d(2) + d(3) * d(3)

\* pow(0.5), rounded to the nearest integer
RSqrt(n) ==
  CHOOSE r \in 0..(2 * WOne + 1) :
    /\ (r = 0 \/ (2 * r - 1) * (2 * r - 1) <= 4 * n)
    /\ 4 * n < (2 * r + 1) * (2 * r + 1)

SplatWNoClamp(corner, c) == WOne - RSqrt(Dist2(corner, c) * WPrec * WPrec)

\* w = 1 - dist.pow(2).sum(0).pow(0.5); w[w < 0] = 0
SplatW(corner, c) ==
  LET w == WOne - RSqrt(Dist2(corner, c) * WPrec * WPrec)
  IN IF w < 0 THEN 0 ELSE w

VoxelIdxXYZ(corner, D_) ==
  <<corner[1] + d2Of(D_), corner[2] + d2Of(D_), corner[3] + d2Of(D_)>>

\* the index tuple (zi + d2, yi + d2, xi + d2)
VoxelIdx(corner, D_) ==
  <<corner[3] + d2Of(D_), corner[2] + d2Of(D_), corner[1] + d2Of(D_)>>

\* a torch index is accepted when -size <= i < size; a negative one wraps
IdxOk(idx, D_) == \A a \in Axes : (0 - D_) <= idx[a] /\ idx[a] < D_

WrapIdx(idx, D_) ==
  LET at(a) == IF idx[a] < 0 THEN idx[a] + D_ ELSE idx[a]
  IN <<at(1), at(2), at(3)>>

GridIdx(D_) == (0..(D_ - 1)) \X (0..(D_ - 1)) \X (0..(D_ - 1))

\* torch.zeros((D, D, D))
Zeros(D_) == [p \in GridIdx(D_) |-> 0]

VolumeTermNoMul(w, s) == w * s.ff

\* w * ff * ctf_mul
VolumeTerm(w, s) == w * s.ff * s.ctf_mul

CountsTermLinear(w, s) == w * s.ctf_mul

\* w * ctf_mul**2
CountsTerm(w, s) == w * s.ctf_mul * s.ctf_mul

\* add_for_corner call k, lines 145-147 and the index of lines 148-149: per
\* sample j the clipped coordinate, the corner, the weight, the index and the
\* two terms to add
CornerCall(ff, D_, k) ==
  {LET c == ClipCoord(ff[j].coord, D_)
       corner == CornerOf(c, k)
       w == SplatW(corner, c)
   IN [call |-> k, sample |-> j, raw |-> ff[j].coord, coord |-> c,
       corner |-> corner, w |-> w, idx |-> VoxelIdx(corner, D_),
       vterm |-> VolumeTerm(w, ff[j]),
       cterm |-> CountsTerm(w, ff[j])] : j \in 1..Len(ff)}

\* grid[idx] += val with index tensors: the gather, the sum and an
\* index_put_ without accumulation.  Where several samples carry the same
\* index the element that is stored is that of one of them, not determined
\* (torch lists the operation as nondeterministic).  val is "vterm" or "cterm".
ScatterOutcomes(g, D_, hits, val) ==
  LET P == {WrapIdx(h.idx, D_) : h \in hits}
      Winners == {ch \in [P -> hits] : \A p \in P : WrapIdx(ch[p].idx, D_) = p}
  IN {[p \in DOMAIN g |-> IF p \in P THEN g[p] + ch[p][val] ELSE g[p]] :
        ch \in Winners}

\* the first add_for_corner call whose index is refused, NCorners + 1 if none
FirstBad(ff, D_) ==
  LET bad == {k \in 1..NCorners :
                \E h \in CornerCall(ff, D_, k) : ~IdxOk(h.idx, D_)}
  IN IF bad = {} THEN NCorners + 1
     ELSE CHOOSE k \in bad : \A k2 \in bad : k <= k2

\* the add_for_corner calls 1..last of lines 151-158 on one of the two grids
RECURSIVE CornerFold(_, _, _, _, _, _)
CornerFold(gs, ff, D_, k, last, val) ==
  IF k > last THEN gs
  ELSE LET hits == CornerCall(ff, D_, k)
       IN CornerFold(UNION {ScatterOutcomes(g, D_, hits, val) : g \in gs},
                     ff, D_, k + 1, last, val)

\* add_slice(volume, counts, ff_coord, ff, D, ctf_mul): every pair of grids the
\* call can leave, and whether it raised on an index
add_slice(vol, cnt, ff, D_) ==
  LET bad == FirstBad(ff, D_)
  IN {[volume |-> v, counts |-> c, raised |-> bad <= NCorners] :
        v \in CornerFold({vol}, ff, D_, 1, bad - 1, "vterm"),
        c \in CornerFold({cnt}, ff, D_, 1, bad - 1, "cterm")}

\* what the call computed and which indices it used: one record per sample
\* and add_for_corner call entered
AccessLog(ff, D_) ==
  LET bad == FirstBad(ff, D_)
      last == IF bad <= NCorners THEN bad ELSE NCorners
  IN UNION {CornerCall(ff, D_, k) : k \in 1..last}

(***************************************************************************)
(* Fractions <<num, den>> in lowest terms with den >= 0.  <<1, 0>> and     *)
(* <<-1, 0>> are the infinities and <<0, 0>> the NaN of float arithmetic.  *)
(***************************************************************************)
Abs(x) == IF x < 0 THEN 0 - x ELSE x
Sgn(x) == IF x < 0 THEN 0 - 1 ELSE IF x > 0 THEN 1 ELSE 0

RECURSIVE Gcd(_, _)
Gcd(a, b) == IF b = 0 THEN a ELSE Gcd(b, a % b)

Norm(n, d) ==
  IF d = 0 THEN <<Sgn(n), 0>>
  ELSE LET g == Gcd(Abs(n), Abs(d))
       IN <<(Sgn(d) * n) \div g, Abs(d) \div g>>

RZero == <<0, 1>>
ROne == <<1, 1>>
RAdd(a, b) == Norm(a[1] * b[2] + b[1] * a[2], a[2] * b[2])
RMul(a, b) == Norm(a[1] * b[1], a[2] * b[2])
RDiv(a, b) ==
  IF b[1] = 0 /\ b[2] # 0 THEN Norm(a[1], 0)
  ELSE Norm(a[1] * b[2] * Sgn(b[1]), a[2] * Abs(b[1]))
Finite(a) == a[2] # 0

\* a grid entry, held in units of 1/WOne, as a fraction
ToRat(x) == Norm(x, WOne)
GridRat(g) == [p \in DOMAIN g |-> ToRat(g[p])]

RECURSIVE RSum(_, _)
RSum(f, S) ==
  IF S = {} THEN RZero
  ELSE LET x == CHOOSE y \in S : TRUE IN RAdd(f[x], RSum(f, S \ {x}))

\* tensor.mean(), summed row by row and plane by plane
Mean(f) ==
  LET S == DOMAIN f
      rows == [ab \in {<<p[1], p[2]>> : p \in S} |->
                 RSum(f, {p \in S : p[1] = ab[1] /\ p[2] = ab[2]})]
      planes == [a \in {p[1] : p \in S} |->
                   RSum(rows, {ab \in DOMAIN rows : ab[1] = a})]
  IN RDiv(RSum(planes, DOMAIN planes), <<Cardinality(S), 1>>)

(***************************************************************************)
(* regularize_volume                                                       *)
(***************************************************************************)
RegularizedCountsNoRescale(cnt, r) ==
  LET mu == Mean(cnt) IN [p \in DOMAIN cnt |-> RAdd(cnt[p], RMul(r, mu))]

RegularizedCountsAbsolute(cnt, r) ==
  LET mu == Mean(cnt)
      added == [p \in DOMAIN cnt |-> RAdd(cnt[p], r)]
      factor == RDiv(mu, Mean(added))
  IN [p \in DOMAIN cnt |-> RMul(added[p], factor)]

\* regularized_counts after lines 164-165, for a grid of fractions
RegularizedCounts(cnt, r) ==
  LET mu == Mean(cnt)
      added == [p \in DOMAIN cnt |-> RAdd(cnt[p], RMul(r, mu))]
      factor == RDiv(mu, Mean(added))
  IN [p \in DOMAIN cnt |-> RMul(added[p], factor)]

\* reg_volume[0:-1, 0:-1, 0:-1]
Trim(g, D_) == [p \in GridIdx(D_ - 1) |-> g[p]]

\* fft.ihtn_center, applied to a grid: the transform is not evaluated
ihtn_center(g) == [ihtn_center_of |-> g]

\* regularize_volume(volume, counts, reg_weight), for grids of fractions
regularize_volume(vol, cnt, r, D_) ==
  LET rc == RegularizedCounts(cnt, r)
      reg_volume == [p \in DOMAIN vol |-> RDiv(vol[p], rc[p])]
  IN ihtn_center(Trim(reg_volume, D_))

CountsArgAliased(cnt, r) == RegularizedCounts(cnt, r)

\* the counts argument after the call: line 164 builds a new tensor, and the
\* in-place product of line 165 acts on that one
CountsArgAfter(cnt, r) == cnt

\* the volume argument after the call: line 166 builds a new tensor
VolumeArgAfter(vol, r) == vol

(***************************************************************************)
(* Inputs of add_slice                                                     *)
(***************************************************************************)
\* one third of a voxel beyond the grid on either side
CoordComps(D_) ==
  ((0 - d2Of(D_)) * CoordRes - 1)..(d2Of(D_) * CoordRes + 1)

Coords(D_) == CoordComps(D_) \X CoordComps(D_) \X CoordComps(D_)

SamplesAt(cs) ==
  {[coord |-> c, ff |-> kd[1], ctf_mul |-> kd[2]] : c \in cs, kd \in Kinds}

\* a point inside the cell next to the +d2 corner voxel, a point beyond the +d2
\* corner of the grid, a point beyond the -d2 face
Inner(D_) == LET b == (d2Of(D_) - 1) * CoordRes + 1 IN <<b, b, b>>
Beyond(D_) == LET b == d2Of(D_) * CoordRes + 1 IN <<b, b, b>>
Below(D_) == <<(0 - d2Of(D_)) * CoordRes - 1, 0, 2>>

\* slices of one sample: every coordinate with one value and multiplier,
\* three coordinates with each of them
SingleSlices(D_) ==
  {<<[coord |-> c, ff |-> 2, ctf_mul |-> 0 - 1]>> : c \in Coords(D_)}
    \cup {<<s>> : s \in SamplesAt({Inner(D_), Beyond(D_), Below(D_)})}

\* slices of two samples
PairSlices(D_) ==
  {<<s, t>> : s \in SamplesAt({Inner(D_), Beyond(D_)}),
              t \in SamplesAt({Beyond(D_), Below(D_)})}

\* the variables of regularize_volume, in a run that does not call it
RegIdle ==
  /\ reg_weight = RZero
  /\ ret = <<>>

\* the variables of main, in a run of one function alone
MainIdle ==
  /\ args = <<>>
  /\ iterator = <<>>
  /\ i = 0
  /\ inserted = <<>>
  /\ zero_w = <<>>
  /\ written = {}

StreamsIdle ==
  /\ volume_full = <<>> /\ counts_full = <<>>
  /\ volume_half1 = <<>> /\ counts_half1 = <<>>
  /\ volume_half2 = <<>> /\ counts_half2 = <<>>

\* the variables of the FSC step of main, in a run that does not reach it
FscIdle ==
  /\ Apix = <<>>
  /\ fsc_vals = <<>>
  /\ fsc_thresh = <<>>
  /\ fsc_angs = <<>>

\* the variables of invert_contrast, in a run of another command
InvIdle ==
  /\ inv_args = <<>>
  /\ input = <<>>
  /\ header = <<>>
  /\ src = <<>>
  /\ out_f = <<>>
  /\ chunk_no = 0

\* the variables of add_slice, in a run that does not call it
SliceIdle ==
  /\ ff_in = <<>>
  /\ acc = {}

(***************************************************************************)
(* SpecSlice: add_slice applied twice to drawn inputs, on the same pair of  *)
(* grids                                                                   *)
(***************************************************************************)
InitSlice ==
  /\ D \in 2..MaxD
  /\ ff_in \in SingleSlices(D) \cup PairSlices(D)
  /\ volume = Zeros(D)
  /\ counts = Zeros(D)
  /\ acc = {}
  /\ pc = "start"
  /\ regularized_counts = <<>>
  /\ data = <<>>
  /\ RegIdle /\ MainIdle /\ StreamsIdle /\ FscIdle /\ InvIdle

CallAddSlice ==
  /\ pc \in {"start", "once"}
  /\ \E out \in add_slice(volume, counts, ff_in, D) :
       /\ volume' = out.volume
       /\ counts' = out.counts
       /\ pc' = IF out.raised THEN "IndexError"
                ELSE IF pc = "start" THEN "once" ELSE "twice"
  /\ acc' = AccessLog(ff_in, D)
  /\ UNCHANGED <<fscVars, invVars, D, ff_in, regularized_counts, data, regVars, streamVars,
                 mainVars>>

NextSlice == CallAddSlice

SpecSlice == InitSlice /\ [][NextSlice]_vars

(***************************************************************************)
(* SpecReg: regularize_volume called on drawn grids, and called again on   *)
(* the same grids, both scaled by a positive constant                      *)
(***************************************************************************)
\* the grid sides main builds: D - 1 is the (even) image size
GridSizes == {d \in 3..MaxD : d % 2 = 1}

CountVals == {0, WOne, 3 * WOne}
RestVals == {0 - WOne, 0, WOne}
VolVals == {0 - 2, 0, 5}
RegWeights == {<<0, 1>>, <<1, 1>>, <<1, 2>>, <<0 - 1, 1>>, <<0 - 2, 1>>}
Scales == {1, 2, 3}

\* grids with one value at voxel (0,0,0), one at (1,1,1), one everywhere else
Grid3(D_, a, b, c) ==
  [p \in GridIdx(D_) |->
     IF p = <<0, 0, 0>> THEN a ELSE IF p = <<1, 1, 1>> THEN b ELSE c]

ScaleGrid(g, k) == [p \in DOMAIN g |-> RMul(<<k, 1>>, g[p])]

InitReg ==
  /\ D \in GridSizes
  /\ \E a \in CountVals, b \in CountVals, c \in RestVals :
       counts = GridRat(Grid3(D, a, b, c))
  /\ \E a \in VolVals, b \in VolVals : volume = GridRat(Grid3(D, a, b, WOne))
  /\ reg_weight \in RegWeights
  /\ regularized_counts = <<>>
  /\ ret = <<>>
  /\ pc = "start"
  /\ data = <<>>
  /\ SliceIdle /\ MainIdle /\ StreamsIdle /\ FscIdle /\ InvIdle

CallRegularize ==
  /\ pc \in {"start", "once"}
  /\ \E k \in IF pc = "start" THEN {1} ELSE Scales :
       LET vol == ScaleGrid(volume, k)
           cnt == ScaleGrid(counts, k)
       IN /\ ret' = Append(ret, [scale |-> k,
                                 out |-> regularize_volume(vol, cnt, reg_weight, D)])
          /\ regularized_counts' = RegularizedCounts(cnt, reg_weight)
  /\ volume' = VolumeArgAfter(volume, reg_weight)
  /\ counts' = CountsArgAfter(counts, reg_weight)
  /\ pc' = IF pc = "start" THEN "once" ELSE "twice"
  /\ UNCHANGED <<fscVars, invVars, D, reg_weight, data, sliceVars, streamVars, mainVars>>

NextReg == CallRegularize

SpecReg == InitReg /\ [][NextReg]_vars

(***************************************************************************)
(* main                                                                    *)
(***************************************************************************)
None == <<>>
Some(x) == <<x>>

\* --ntilts, when not given
NtiltsDefault == 10

InnerFloor(D_) == LET b == (d2Of(D_) - 1) * CoordRes IN <<b, b, b>>

\* what an image can yield at line 294: one sample inside a cell; that sample
\* and a second one on the grid point below it whose weight is 0; one sample
\* beyond the grid
MainSlices(D_) ==
  {<<[coord |-> Inner(D_), ff |-> 2, ctf_mul |-> 0 - 1]>>,
   <<[coord |-> Inner(D_), ff |-> 0 - 1, ctf_mul |-> 2],
     [coord |-> InnerFloor(D_), ff |-> 2, ctf_mul |-> 0]>>,
   <<[coord |-> Beyond(D_), ff |-> 2, ctf_mul |-> 0 - 1]>>}

\* the images of a run, at most one of them with two samples; in a tilt
\* series the tilt numbers alternate 0, 1 from either start
Datasets(D_, tilt) ==
  UNION {{[n \in 1..k |-> [ff |-> s[n],
                          tilt_number |-> IF tilt THEN (n + o) % 2 ELSE 0]] :
            s \in {q \in [1..k -> MainSlices(D_)] :
                     Cardinality({n \in 1..k : Len(q[n]) > 1}) <= 1},
            o \in IF tilt THEN {0, 1} ELSE {0}} : k \in 1..MaxImg}

\* the command lines drawn; a tilt-series run keeps the default --reg-weight
\* and writes no sums and counts
ArgSets ==
  {a \in [outfile_mrc : BOOLEAN,
          half_maps : BOOLEAN,
          reg_weight : {<<1, 1>>, <<0, 1>>},
          output_sumcount : BOOLEAN,
          first : {None, Some(0), Some(1), Some(MaxImg + 1)},
          tilt : BOOLEAN,
          ntilts : {1, NtiltsDefault},
          dose_per_tilt : {None, Some(3)}] :
     /\ ~a.tilt => (a.ntilts = NtiltsDefault /\ a.dose_per_tilt = None)
     /\ a.tilt => /\ a.ntilts = 1
                  /\ a.reg_weight = <<1, 1>>
                  /\ ~a.output_sumcount}

\* lines 246-252; the indices are those of the code, from 0
BuildIterator(a, d) ==
  LET Nimg == Len(d)
      upto == IF a.first = None \/ a.first[1] = 0 THEN Nimg
              ELSE IF a.first[1] < Nimg THEN a.first[1] ELSE Nimg
      base == [n \in 1..(IF upto < 0 THEN 0 ELSE upto) |-> n - 1]
      use(ii) == d[ii + 1].tilt_number \in 0..(a.ntilts - 1)
  IN IF a.tilt THEN SelectSeq(base, use) ELSE base

HalfStreamByPosition(ii, n) == IF n % 2 = 0 THEN "half1" ELSE "half2"

\* lines 298-301: the half stream of image ii, the n-th of the loop (from 0)
HalfStream(ii, n) == IF ii % 2 = 0 THEN "half1" ELSE "half2"

FloorZerosNone(cnt) == cnt

\* counts[counts == 0] = 1
FloorZeros(cnt) == [p \in DOMAIN cnt |-> IF cnt[p] = 0 THEN WOne ELSE cnt[p]]

ZeroSet(cnt) == {p \in DOMAIN cnt : cnt[p] = 0}

\* line 242: 1.0 without ctf parameters, else their first column; a second
\* pixel size is drawn for plain runs with half maps
ApixVals(a) ==
  IF a.half_maps /\ ~a.tilt /\ a.first = None /\ ~a.output_sumcount
  THEN {ROne, <<2, 1>>}
  ELSE {ROne}

Init ==
  /\ D \in GridSizes
  /\ args \in ArgSets
  /\ data \in Datasets(D, args.tilt)
  /\ iterator = <<>>
  /\ i = 0
  /\ inserted = <<>>
  /\ zero_w = <<>>
  /\ written = {}
  /\ regularized_counts = <<>>
  /\ volume = <<>> /\ counts = <<>>
  /\ pc = "start"
  /\ Apix \in ApixVals(args)
  /\ fsc_vals = <<>> /\ fsc_thresh = <<>> /\ fsc_angs = <<>>
  /\ StreamsIdle /\ SliceIdle /\ RegIdle /\ InvIdle

\* lines 172-173
CheckOutfile ==
  /\ pc = "start"
  /\ pc' = IF args.outfile_mrc THEN "load" ELSE "ValueError"
  /\ UNCHANGED <<fscVars, invVars, D, volume, counts, regularized_counts, data, sliceVars,
                 regVars, streamVars, mainVars>>

LoadDataNoAssert ==
  /\ pc = "load"
  /\ pc' = "loop"
  /\ iterator' = BuildIterator(args, data)
  /\ volume_full' = Zeros(D) /\ counts_full' = Zeros(D)
  /\ volume_half1' = Zeros(D) /\ counts_half1' = Zeros(D)
  /\ volume_half2' = Zeros(D) /\ counts_half2' = Zeros(D)
  /\ UNCHANGED <<fscVars, invVars, D, volume, counts, regularized_counts, data, sliceVars,
                 regVars, args, i, inserted, zero_w, written>>

\* lines 186-259
LoadData ==
  /\ pc = "load"
  /\ IF args.tilt /\ args.dose_per_tilt = None
     THEN /\ pc' = "AssertionError"
          /\ UNCHANGED <<iterator, streamVars>>
     ELSE /\ pc' = "loop"
          /\ iterator' = BuildIterator(args, data)
          /\ volume_full' = Zeros(D) /\ counts_full' = Zeros(D)
          /\ volume_half1' = Zeros(D) /\ counts_half1' = Zeros(D)
          /\ volume_half2' = Zeros(D) /\ counts_half2' = Zeros(D)
  /\ UNCHANGED <<fscVars, invVars, D, volume, counts, regularized_counts, data, sliceVars,
                 regVars, args, i, inserted, zero_w, written>>

\* the image index ii of the pass under way, and the slice it yields
CurII == iterator[i + 1]
CurFF == data[CurII + 1].ff

\* lines 261-295
AddFull ==
  /\ pc = "loop"
  /\ i < Len(iterator)
  /\ \E out \in add_slice(volume_full, counts_full, CurFF, D) :
       /\ volume_full' = out.volume
       /\ counts_full' = out.counts
       /\ pc' = IF out.raised THEN "IndexError" ELSE "half"
  /\ inserted' = Append(inserted, <<CurII, "full">>)
  /\ UNCHANGED <<fscVars, invVars, D, volume, counts, regularized_counts, data, sliceVars,
                 regVars, volume_half1, counts_half1, volume_half2,
                 counts_half2, args, iterator, i, zero_w, written>>

\* lines 297-301, half-maps requested
AddHalf ==
  /\ pc = "half"
  /\ args.half_maps
  /\ \/ /\ HalfStream(CurII, i) = "half1"
        /\ \E out \in add_slice(volume_half1, counts_half1, CurFF, D) :
             /\ volume_half1' = out.volume
             /\ counts_half1' = out.counts
             /\ pc' = IF out.raised THEN "IndexError" ELSE "loop"
        /\ UNCHANGED <<volume_half2, counts_half2>>
     \/ /\ HalfStream(CurII, i) = "half2"
        /\ \E out \in add_slice(volume_half2, counts_half2, CurFF, D) :
             /\ volume_half2' = out.volume
             /\ counts_half2' = out.counts
             /\ pc' = IF out.raised THEN "IndexError" ELSE "loop"
        /\ UNCHANGED <<volume_half1, counts_half1>>
  /\ inserted' = Append(inserted, <<CurII, HalfStream(CurII, i)>>)
  /\ i' = i + 1
  /\ UNCHANGED <<fscVars, invVars, D, volume, counts, regularized_counts, data, sliceVars,
                 regVars, volume_full, counts_full, args, iterator, zero_w,
                 written>>

\* line 297, half-maps not requested
SkipHalf ==
  /\ pc = "half"
  /\ ~args.half_maps
  /\ i' = i + 1
  /\ pc' = "loop"
  /\ UNCHANGED <<fscVars, invVars, D, volume, counts, regularized_counts, data, sliceVars,
                 regVars, streamVars, args, iterator, inserted, zero_w,
                 written>>

\* lines 303-311
FloorCounts ==
  /\ pc = "loop"
  /\ i = Len(iterator)
  /\ zero_w' = [full |-> ZeroSet(counts_full),
                half1 |-> ZeroSet(counts_half1),
                half2 |-> ZeroSet(counts_half2)]
  /\ counts_full' = FloorZeros(counts_full)
  /\ counts_half1' = FloorZeros(counts_half1)
  /\ counts_half2' = FloorZeros(counts_half2)
  /\ pc' = "floored"
  /\ UNCHANGED <<fscVars, invVars, D, volume, counts, regularized_counts, data, sliceVars,
                 regVars, volume_full, volume_half1, volume_half2, args,
                 iterator, i, inserted, written>>

\* lines 313-319
RegularizeFull ==
  /\ pc = "floored"
  /\ written' = written \cup
       (IF args.output_sumcount THEN {"sums", "counts"} ELSE {}) \cup {"outfile"}
  /\ volume_full' = regularize_volume(GridRat(volume_full), GridRat(counts_full),
                                      args.reg_weight, D)
  /\ regularized_counts' =
       [full |-> RegularizedCounts(GridRat(counts_full), args.reg_weight)]
  /\ pc' = IF args.half_maps THEN "halves" ELSE "done"
  /\ UNCHANGED <<fscVars, invVars, D, volume, counts, data, sliceVars, regVars, counts_full,
                 volume_half1, counts_half1, volume_half2, counts_half2, args,
                 iterator, i, inserted, zero_w>>

\* lines 322-324
RegularizeHalves ==
  /\ pc = "halves"
  /\ volume_half1' = regularize_volume(GridRat(volume_half1),
                                       GridRat(counts_half1), args.reg_weight, D)
  /\ volume_half2' = regularize_volume(GridRat(volume_half2),
                                       GridRat(counts_half2), args.reg_weight, D)
  /\ regularized_counts' =
       [full |-> regularized_counts.full,
        half1 |-> RegularizedCounts(GridRat(counts_half1), args.reg_weight),
        half2 |-> RegularizedCounts(GridRat(counts_half2), args.reg_weight)]
  /\ pc' = "fsc"
  /\ UNCHANGED <<fscVars, invVars, D, volume, counts, data, sliceVars, regVars, volume_full,
                 counts_full, counts_half1, counts_half2, mainVars>>

\* the mask labels of lines 327-336, in the order of the dict
MaskLabels == <<"No Mask", "Spherical", "Loose", "Tight">>
MaskSet == {MaskLabels[n] : n \in DOMAIN MaskLabels}

\* calculate_fsc(volume_half1, volume_half2, mask, phase_randomization): the
\* curve is not evaluated
calculate_fsc(mask, phase_randomization) ==
  [mask |-> mask, phase_randomization |-> phase_randomization]

\* what get_fsc_thresholds(...)[1] returns for the curves of the four masks:
\* a bin of the curve, or None for a curve that never crosses. Four cases are
\* drawn: every curve crosses, all but Tight, all but Loose, none
ThresholdBin == <<2, 1>>
MaskThresholds ==
  {th \in [MaskSet -> {None, ThresholdBin}] :
     /\ th["No Mask"] = th["Spherical"]
     /\ th["Loose"] = None => th["No Mask"] = None \/ th["Tight"] # None
     /\ th["No Mask"] = None => th["Loose"] = None /\ th["Tight"] = None}

\* and for the corrected curve
CorrectedThresholds == {None, ROne}

PhaseRandomizationAtThreshold(thresh) == thresh

\* line 351
PhaseRandomization(thresh) == RMul(<<3, 4>>, thresh)

\* lines 326-358
CalculateFSC ==
  /\ pc = "fsc"
  /\ \E th \in MaskThresholds :
       LET vals == [lbl \in MaskSet |-> calculate_fsc(lbl, None)]
       IN IF th["Tight"] # None
          THEN \E c \in CorrectedThresholds :
                 /\ fsc_vals' =
                      [lbl \in MaskSet \cup {"Corrected"} |->
                         IF lbl = "Corrected"
                         THEN calculate_fsc("Tight",
                                            PhaseRandomization(th["Tight"]))
                         ELSE vals[lbl]]
                 /\ fsc_thresh' =
                      [lbl \in MaskSet \cup {"Corrected"} |->
                         IF lbl = "Corrected" THEN c ELSE th[lbl]]
          ELSE /\ fsc_vals' =
                    [lbl \in MaskSet \cup {"Corrected"} |->
                       IF lbl = "Corrected" THEN vals["Tight"] ELSE vals[lbl]]
               /\ fsc_thresh' =
                    [lbl \in MaskSet \cup {"Corrected"} |->
                       IF lbl = "Corrected" THEN th["Tight"] ELSE th[lbl]]
  /\ pc' = "angs"
  /\ UNCHANGED <<Apix, fsc_angs, invVars, D, volume, counts,
                 regularized_counts, data, sliceVars, regVars, streamVars,
                 mainVars>>

\* line 361: (1 / fsc_val) * Apix
Resolution(thresh, apix) == RMul(RDiv(ROne, thresh), apix)

\* lines 360-383
WriteFSC ==
  /\ pc = "angs"
  /\ IF \E lbl \in DOMAIN fsc_thresh : fsc_thresh[lbl] = None
     THEN /\ pc' = "TypeError"
          /\ UNCHANGED <<fsc_angs, written>>
     ELSE /\ fsc_angs' = [lbl \in DOMAIN fsc_thresh |->
                            Resolution(fsc_thresh[lbl], Apix)]
          /\ written' = written \cup
               {"fsc-plot", "fsc-vals", "half-map1", "half-map2"}
          /\ pc' = "done"
  /\ UNCHANGED <<Apix, fsc_vals, fsc_thresh, invVars, D, volume, counts,
                 regularized_counts, data, sliceVars, regVars, streamVars,
                 args, iterator, i, inserted, zero_w>>

Next ==
  \/ CheckOutfile
  \/ LoadData
  \/ AddFull
  \/ AddHalf
  \/ SkipHalf
  \/ FloorCounts
  \/ RegularizeFull
  \/ RegularizeHalves
  \/ CalculateFSC
  \/ WriteFSC

Spec == Init /\ [][Next]_vars

(***************************************************************************)
(* SpecOrder: two slices inserted by add_slice into four pairs of zero     *)
(* grids: in the order given (volume_full, counts_full), in the reverse     *)
(* order (volume, counts), and one slice each (the two half pairs)         *)
(***************************************************************************)
\* the slices of main and one that is folded onto the -d2 face
OrderSlices(D_) ==
  MainSlices(D_) \cup {<<[coord |-> Below(D_), ff |-> 2, ctf_mul |-> 0 - 1]>>}

InitOrder ==
  /\ D \in GridSizes
  /\ data \in OrderSlices(D) \X OrderSlices(D)
  /\ volume_full = Zeros(D) /\ counts_full = Zeros(D)
  /\ volume = Zeros(D) /\ counts = Zeros(D)
  /\ volume_half1 = Zeros(D) /\ counts_half1 = Zeros(D)
  /\ volume_half2 = Zeros(D) /\ counts_half2 = Zeros(D)
  /\ regularized_counts = <<>>
  /\ pc = "start"
  /\ SliceIdle /\ RegIdle /\ MainIdle /\ FscIdle /\ InvIdle

\* add_slice(volume_full, counts_full, ...) with data[1], then with data[2]
InsertForward ==
  /\ pc \in {"start", "forward"}
  /\ \E out \in add_slice(volume_full, counts_full,
                          data[IF pc = "start" THEN 1 ELSE 2], D) :
       /\ volume_full' = out.volume
       /\ counts_full' = out.counts
       /\ pc' = IF out.raised THEN "IndexError"
                ELSE IF pc = "start" THEN "forward" ELSE "reverse"
  /\ UNCHANGED <<fscVars, invVars, D, volume, counts, regularized_counts, data, sliceVars,
                 regVars, volume_half1, counts_half1, volume_half2,
                 counts_half2, mainVars>>

\* add_slice(volume, counts, ...) with data[2], then with data[1]
InsertReverse ==
  /\ pc \in {"reverse", "reversed"}
  /\ \E out \in add_slice(volume, counts,
                          data[IF pc = "reverse" THEN 2 ELSE 1], D) :
       /\ volume' = out.volume
       /\ counts' = out.counts
       /\ pc' = IF out.raised THEN "IndexError"
                ELSE IF pc = "reverse" THEN "reversed" ELSE "batch1"
  /\ UNCHANGED <<fscVars, invVars, D, regularized_counts, data, sliceVars, regVars, streamVars,
                 mainVars>>

\* add_slice(volume_half1, counts_half1, ...) with data[1] alone
InsertBatch1 ==
  /\ pc = "batch1"
  /\ \E out \in add_slice(volume_half1, counts_half1, data[1], D) :
       /\ volume_half1' = out.volume
       /\ counts_half1' = out.counts
       /\ pc' = IF out.raised THEN "IndexError" ELSE "batch2"
  /\ UNCHANGED <<fscVars, invVars, D, volume, counts, regularized_counts, data, sliceVars,
                 regVars, volume_full, counts_full, volume_half2,
                 counts_half2, mainVars>>

\* add_slice(volume_half2, counts_half2, ...) with data[2] alone
InsertBatch2 ==
  /\ pc = "batch2"
  /\ \E out \in add_slice(volume_half2, counts_half2, data[2], D) :
       /\ volume_half2' = out.volume
       /\ counts_half2' = out.counts
       /\ pc' = IF out.raised THEN "IndexError" ELSE "done"
  /\ UNCHANGED <<fscVars, invVars, D, volume, counts, regularized_counts, data, sliceVars,
                 regVars, volume_full, counts_full, volume_half1,
                 counts_half1, mainVars>>

NextOrder ==
  \/ InsertForward
  \/ InsertReverse
  \/ InsertBatch1
  \/ InsertBatch2

SpecOrder == InitOrder /\ [][NextOrder]_vars

(***************************************************************************)
(* Claims about add_slice, stated without the operators above              *)
(***************************************************************************)
RECURSIVE SumFun(_, _)
SumFun(f, S) ==
  IF S = {} THEN 0
  ELSE LET x == CHOOSE y \in S : TRUE IN f[x] + SumFun(f, S \ {x})

\* the greatest integer not above, the least integer not below x / CoordRes
IntFloor(x) == CHOOSE z \in (0 - MaxD)..MaxD :
                 z * CoordRes <= x /\ x < (z + 1) * CoordRes
IntCeil(x) == CHOOSE z \in (0 - MaxD)..MaxD :
                (z - 1) * CoordRes < x /\ x <= z * CoordRes

HalfD == CHOOSE h \in 0..D : 2 * h <= D /\ D < 2 * (h + 1)

Min2(x, y) == IF x <= y THEN x ELSE y
Max2(x, y) == IF x >= y THEN x ELSE y

\* the component clamped to [-floor(D/2), floor(D/2)]
Clamped(x) == Max2((0 - HalfD) * CoordRes, Min2(x, HalfD * CoordRes))

\* floor or ceil per axis
Selections == [Axes -> {"floor", "ceil"}]

SelCorner(sel, c) ==
  [a \in Axes |-> IF sel[a] = "floor" THEN IntFloor(c[a]) ELSE IntCeil(c[a])]

\* w * WOne is the multiple of 1/WOne nearest to
\* max(0, 1 - Euclidean distance(corner, c))
IsKernelWeight(w, corner, c) ==
  LET n4 == 4 * WPrec * WPrec *
              SumFun([a \in Axes |-> (corner[a] * CoordRes - c[a]) *
                                     (corner[a] * CoordRes - c[a])], Axes)
      e == WOne - w
  IN /\ 0 <= w /\ w <= WOne
     /\ w > 0 => /\ n4 < (2 * e + 1) * (2 * e + 1)
                 /\ (e = 0 \/ (2 * e - 1) * (2 * e - 1) <= n4)
     /\ w = 0 => (2 * WOne - 1) * (2 * WOne - 1) <= n4

KernelWeight(corner, c) == CHOOSE w \in 0..WOne : IsKernelWeight(w, corner, c)

\* per corner selection of sample s: the voxel it lands on and its weight
SplatTable(s) ==
  LET c == <<Clamped(s.coord[1]), Clamped(s.coord[2]), Clamped(s.coord[3])>>
  IN {LET k == SelCorner(sel, c)
      IN [sel |-> sel,
          at |-> <<k[3] + HalfD, k[2] + HalfD, k[1] + HalfD>>,
          w |-> KernelWeight(k, c)] : sel \in Selections}

RECURSIVE SumW(_)
SumW(T) ==
  IF T = {} THEN 0
  ELSE LET r == CHOOSE x \in T : TRUE IN r.w + SumW(T \ {r})

\* the sum, over the corner selections that land on voxel p, of w * f
SplatSum(tab, p, f) == SumW({r \in tab : r.at = p}) * f

AddSliceReturned == pc' # pc /\ pc' \in {"once", "twice"}

\* C1: a call of add_slice with one sample (coordinate c after clipping, value
\* v, weight m) raises the value of the voxel at corner + floor(D/2) by w*v*m
\* and its weight by w*m^2 for each of the 8 corner selections, with
\* w = max(0, 1 - distance(corner, c)), and changes no other voxel.
C1_SingleSampleSplat ==
  [][(AddSliceReturned /\ Len(ff_in) = 1) =>
       LET s == ff_in[1]
           tab == SplatTable(s)
       IN \A p \in GridIdx(D) :
            /\ volume'[p] - volume[p] = SplatSum(tab, p, s.ff * s.ctf_mul)
            /\ counts'[p] - counts[p] =
                 SplatSum(tab, p, s.ctf_mul * s.ctf_mul)]_vars

\* a second call has returned for one sample that was clipped on the x axis
\* only and lies strictly inside a cell: 8 voxels carry weight
C1_Witness ==
  /\ pc = "twice"
  /\ Len(ff_in) = 1
  /\ ff_in[1].coord[1] > HalfD * CoordRes
  /\ ff_in[1].ctf_mul # 0
  /\ Cardinality({p \in GridIdx(D) : volume[p] # 0}) >= 4
  /\ \E p \in GridIdx(D) : 0 < counts[p] /\ counts[p] < 2 * WOne

InGrid(idx) == \A a \in Axes : 0 <= idx[a] /\ idx[a] < D

ClampedAndInGrid ==
  /\ DOMAIN volume = GridIdx(D) /\ DOMAIN counts = GridIdx(D)
  /\ \A r \in acc :
       /\ \A a \in Axes : r.coord[a] = Clamped(r.raw[a])
       /\ InGrid(r.idx)

\* C2 as written: for every grid size D, odd or even, add_slice clamps each
\* coordinate component to [-floor(D/2), floor(D/2)] and every index it uses
\* lies in [0, D) on every axis.
C2_AnyGridSize == ClampedAndInGrid

\* C2 as amended: the same for every odd grid size D.
C2_OddGridSize == D % 2 = 1 => ClampedAndInGrid

\* an odd grid, a coordinate beyond the grid on one side and one beyond it on
\* the other, and both the first and the last index of an axis used
C2_Witness ==
  /\ D % 2 = 1
  /\ pc = "twice"
  /\ \E r \in acc : r.raw[1] > HalfD * CoordRes /\ r.idx[3] = D - 1
  /\ \E r \in acc : r.raw[2] < (0 - HalfD) * CoordRes /\ r.idx[2] = 0

\* C5: every splat weight w computed by add_slice satisfies 0 <= w <= 1, and
\* w = 1 only when the clipped coordinate equals the corner.
C5_WeightBound ==
  \A r \in acc :
    /\ 0 <= r.w /\ r.w <= WOne
    /\ r.w = WOne => \A a \in Axes : r.corner[a] * CoordRes = r.coord[a]

\* one call computed a weight of 1 (a sample on a grid point), a weight of 0
\* (a corner a voxel or more away) and a weight strictly between
C5_Witness ==
  /\ pc \in {"once", "twice"}
  /\ \E r \in acc : r.w = WOne
  /\ \E r \in acc : r.w = 0
  /\ \E r \in acc : 0 < r.w /\ r.w < WOne

\* the samples of a slice that one corner call sends to the same voxel
Coincide(ff, D_) ==
  \E k \in 1..NCorners : \E m, n \in 1..Len(ff) :
    /\ m # n
    /\ VoxelIdx(CornerOf(ClipCoord(ff[m].coord, D_), k), D_)
         = VoxelIdx(CornerOf(ClipCoord(ff[n].coord, D_), k), D_)

OrdersDone == pc \in {"batch1", "batch2", "done"}

\* C3: two slices inserted into equal grids in either order leave the same
\* volume grid and the same counts grid
C3_OrderIndependent ==
  OrdersDone => (volume_full = volume /\ counts_full = counts)

\* the same, for slices none of whose samples share a voxel in a corner call
OrderOfDistinctVoxels ==
  (OrdersDone /\ ~Coincide(data[1], D) /\ ~Coincide(data[2], D))
    => (volume_full = volume /\ counts_full = counts)

GridSum(g, h) == [p \in DOMAIN g |-> g[p] + h[p]]

\* C4: the grids of two slices inserted one after the other are the
\* elementwise sums of the grids of each slice inserted alone
C4_BatchAdditive ==
  pc = "done" => /\ volume_full = GridSum(volume_half1, volume_half2)
                 /\ counts_full = GridSum(counts_half1, counts_half2)

\* the same, for slices none of whose samples share a voxel in a corner call
BatchesOfDistinctVoxels ==
  (pc = "done" /\ ~Coincide(data[1], D) /\ ~Coincide(data[2], D))
    => /\ volume_full = GridSum(volume_half1, volume_half2)
       /\ counts_full = GridSum(counts_half1, counts_half2)

(***************************************************************************)
(* Claims about regularize_volume                                          *)
(***************************************************************************)
\* the counts grid the last call was given
LastCounts == ScaleGrid(counts, ret[Len(ret)].scale)

\* C8: for a weight grid of non-zero mean and reg_weight # -1 the regularized
\* weights have the mean of the weights and equal
\* (weights + reg_weight * mean(weights)) / (1 + reg_weight).
C8_RescaledToMean ==
  (/\ pc \in {"once", "twice"}
   /\ Mean(LastCounts) # RZero
   /\ reg_weight # <<0 - 1, 1>>) =>
    LET mu == Mean(LastCounts)
    IN /\ Mean(regularized_counts) = mu
       /\ \A p \in GridIdx(D) :
            RMul(regularized_counts[p], RAdd(ROne, reg_weight)) =
              RAdd(LastCounts[p], RMul(reg_weight, mu))

\* a call with a non-zero reg_weight on weights that are not all equal
C8_Witness ==
  /\ pc = "once"
  /\ reg_weight \notin {RZero, <<0 - 1, 1>>}
  /\ Mean(counts) # RZero
  /\ counts[<<0, 0, 0>>] # counts[<<1, 1, 1>>]
  /\ regularized_counts[<<0, 0, 0>>] # counts[<<0, 0, 0>>]

\* C9: scaling the value grid and the weight grid by the same positive
\* constant leaves what regularize_volume returns unchanged.
C9_ScaleInvariant ==
  \A m \in DOMAIN ret : \A n \in DOMAIN ret : ret[m].out = ret[n].out

\* a call on the grids and one on the grids scaled by 3, with a non-zero
\* reg_weight and a finite, non-zero quotient
C9_Witness ==
  /\ pc = "twice"
  /\ ret[1].scale = 1 /\ ret[2].scale = 3
  /\ reg_weight = <<1, 2>>
  /\ counts[<<0, 0, 0>>] # counts[<<1, 1, 1>>]
  /\ \E p \in GridIdx(D - 1) :
       LET q == ret[2].out.ihtn_center_of[p] IN Finite(q) /\ q # RZero

Insertions(ii, stream) ==
  Cardinality({n \in 1..Len(inserted) : inserted[n] = <<ii, stream>>})

InLoop == pc \in {"loop", "half"}
LoopEntered ==
  pc \in {"loop", "half", "floored", "halves", "fsc", "angs", "TypeError", "done"}

Untouched(vol, cnt) == vol = Zeros(D) /\ cnt = Zeros(D)

\* C6: every image the loop has passed is inserted once into the full stream;
\* with half maps it is inserted once more, into half-1 iff its index is even
\* and into half-2 iff its index is odd; without half maps no insertion
\* touches a half stream
C6_Routing ==
  LoopEntered =>
    /\ \A n \in 1..i :
         LET ii == iterator[n] IN
           /\ Insertions(ii, "full") = 1
           /\ Insertions(ii, "half1")
                = (IF args.half_maps /\ ii % 2 = 0 THEN 1 ELSE 0)
           /\ Insertions(ii, "half2")
                = (IF args.half_maps /\ ii % 2 = 1 THEN 1 ELSE 0)
    /\ InLoop =>
         /\ (\A n \in 1..i : ~(args.half_maps /\ iterator[n] % 2 = 0))
              => Untouched(volume_half1, counts_half1)
         /\ (\A n \in 1..i : ~(args.half_maps /\ iterator[n] % 2 = 1))
              => Untouched(volume_half2, counts_half2)

\* a run with half maps whose first image in the loop has an odd index and
\* lands in half-2, and a run without half maps that has passed an image
C6_Witness ==
  /\ pc = "loop"
  /\ i >= 1
  /\ \/ /\ args.half_maps
        /\ iterator[1] = 1
        /\ counts_half2 # Zeros(D)
        /\ Untouched(volume_half1, counts_half1)
     \/ /\ ~args.half_maps
        /\ counts_full # Zeros(D)
        /\ Untouched(volume_half2, counts_half2)

Streams == IF args.half_maps THEN {"full", "half1", "half2"} ELSE {"full"}

CountsOf(stream) ==
  IF stream = "full" THEN counts_full
  ELSE IF stream = "half1" THEN counts_half1 ELSE counts_half2

QuotientOf(stream) ==
  IF stream = "full" THEN volume_full.ihtn_center_of
  ELSE IF stream = "half1" THEN volume_half1.ihtn_center_of
  ELSE volume_half2.ihtn_center_of

\* every stream of the run has been regularized
AllRegularized ==
  IF args.half_maps THEN pc \in {"fsc", "angs", "TypeError", "done"}
  ELSE pc = "done"

\* after the loop no weight is 0, and a weight that was 0 is 1
Floored ==
  pc \in {"floored", "halves", "fsc", "angs", "TypeError", "done"} =>
    \A s \in {"full", "half1", "half2"} : \A p \in GridIdx(D) :
      /\ CountsOf(s)[p] # 0
      /\ p \in zero_w[s] => CountsOf(s)[p] = WOne

\* for reg_weight >= 0 no divisor is 0 and every quotient is finite
NoDivisionByZero ==
  (AllRegularized /\ args.reg_weight[1] >= 0) =>
    \A s \in Streams :
      /\ \A p \in GridIdx(D) : regularized_counts[s][p][1] # 0
      /\ \A p \in GridIdx(D - 1) : Finite(QuotientOf(s)[p])

\* the quotient is 0 where the weight was 0
ZeroWhereNoWeight ==
  (AllRegularized /\ args.reg_weight[1] >= 0) =>
    \A s \in Streams : \A p \in GridIdx(D - 1) :
      p \in zero_w[s] => QuotientOf(s)[p] = RZero

\* C7: before regularization every weight that is 0 becomes 1, so that for
\* reg_weight >= 0 no division is by zero, the quotient at a voxel of weight 0
\* is 0, and the run reaches its end
C7_ZeroWeightFloored ==
  /\ Floored
  /\ NoDivisionByZero
  /\ ZeroWhereNoWeight

BadOutfile == ~args.outfile_mrc
TiltWithoutDose == args.tilt /\ args.dose_per_tilt = None

\* C11: an output path not ending in .mrc, and tilt mode without a dose per
\* tilt, each end main with an error before any add_slice call has touched a
\* grid and before any file is written
C11_ConfigErrorsFirst ==
  /\ (BadOutfile /\ pc # "start") => pc = "ValueError"
  /\ (~BadOutfile /\ TiltWithoutDose /\ pc \notin {"start", "load"})
       => pc = "AssertionError"
  /\ pc \in {"ValueError", "AssertionError"} =>
       /\ inserted = <<>>
       /\ written = {}
       /\ StreamsIdle

\* a tilt-series run with half maps and no dose per tilt, stopped at the
\* assertion of line 197
C11_Witness ==
  /\ pc = "AssertionError"
  /\ args.tilt /\ args.half_maps
  /\ Len(data) = MaxImg

(***************************************************************************)
(* Claims about the FSC step of main                                       *)
(***************************************************************************)
AllLabels == {"No Mask", "Spherical", "Loose", "Tight", "Corrected"}
CurvesComputed == args.half_maps /\ pc \in {"angs", "TypeError", "done"}
SomeThresholdNone == \E lbl \in DOMAIN fsc_thresh : fsc_thresh[lbl] = None

FscFiles == {"fsc-vals", "half-map1", "half-map2"}

\* C12: when the threshold of a curve is None main does not raise, and it
\* writes the FSC values and both half maps
C12_NoCrossingNoRaise ==
  /\ pc # "TypeError"
  /\ (pc \in {"TypeError", "done"} /\ SomeThresholdNone)
       => (pc = "done" /\ FscFiles \subseteq written)

\* C13: curves are computed for exactly the four masks, without phase
\* randomization; with a Tight threshold the Corrected curve is computed with
\* the Tight mask and phase randomization at 0.75 times that threshold, under
\* a threshold of its own; without one the Corrected curve and threshold are
\* the Tight curve and threshold
C13_GoldStandard ==
  CurvesComputed =>
    /\ DOMAIN fsc_vals = AllLabels /\ DOMAIN fsc_thresh = AllLabels
    /\ \A lbl \in AllLabels \ {"Corrected"} :
         /\ fsc_vals[lbl].mask = lbl
         /\ fsc_vals[lbl].phase_randomization = None
    /\ IF fsc_thresh["Tight"] # None
       THEN LET pr == fsc_vals["Corrected"].phase_randomization
                th == fsc_thresh["Tight"]
            IN /\ fsc_vals["Corrected"].mask = "Tight"
               /\ pr # None
               /\ 4 * pr[1] * th[2] = 3 * th[1] * pr[2]
       ELSE /\ fsc_vals["Corrected"] = fsc_vals["Tight"]
            /\ fsc_thresh["Corrected"] = None

\* a run whose Tight curve crosses and whose Corrected curve crosses elsewhere
C13_Witness ==
  /\ CurvesComputed
  /\ pc = "done"
  /\ fsc_thresh["Tight"] # None
  /\ fsc_thresh["Corrected"] \notin {None, fsc_thresh["Tight"]}
  /\ fsc_vals["Corrected"] # fsc_vals["Tight"]

\* the side of the volumes the curves are computed from
GridSide == D - 1

LoopDone == pc \in {"floored", "halves", "fsc", "angs", "TypeError", "done"}

\* the image indices inserted into a stream, in the order of insertion
InsertedInto(stream) ==
  LET hit(e) == e[2] = stream
      sel == SelectSeq(inserted, hit)
  IN [n \in 1..Len(sel) |-> sel[n][1]]

Ascending(S) ==
  CHOOSE s \in [1..Cardinality(S) -> S] :
    \A m, n \in 1..Cardinality(S) : m < n => s[m] < s[n]

\* the images a run is to backproject: those of the prefix, in tilt mode
\* those of them whose tilt number is below ntilts
PrefixImages ==
  LET Nimg == Len(data)
      upto == IF args.first = None THEN Nimg ELSE Min2(args.first[1], Nimg)
  IN {ii \in 0..(upto - 1) :
        args.tilt => data[ii + 1].tilt_number < args.ntilts}

\* C15: with --first N, N >= 0, the images 0 .. min(N, Nimg) - 1 that pass
\* the tilt filter are backprojected once each in ascending order, and
\* without --first all images are
C15_FirstPrefix ==
  LoopDone => InsertedInto("full") = Ascending(PrefixImages)

\* the same for N >= 1
FirstPositivePrefix ==
  (LoopDone /\ (args.first = None \/ args.first[1] >= 1))
    => InsertedInto("full") = Ascending(PrefixImages)

(***************************************************************************)
(* Claims about slices of several samples                                  *)
(***************************************************************************)
\* one entry per sample and corner selection: the voxel, and the terms
\* w * v * m and w * m^2
SliceTable(ff) ==
  UNION {{[sample |-> j, sel |-> r.sel, at |-> r.at,
           v |-> r.w * ff[j].ff * ff[j].ctf_mul,
           c |-> r.w * ff[j].ctf_mul * ff[j].ctf_mul] :
            r \in SplatTable(ff[j])} : j \in 1..Len(ff)}

RECURSIVE SumField(_, _)
SumField(T, field) ==
  IF T = {} THEN 0
  ELSE LET r == CHOOSE x \in T : TRUE IN r[field] + SumField(T \ {r}, field)

\* the complete contribution of a slice to a voxel
SliceTotal(tab, p, field) == SumField({r \in tab : r.at = p}, field)

\* C18: a returning add_slice call raises every voxel's value and weight by
\* the sums of w * v * m and w * m^2 over all samples and corner selections
\* that select it, samples that share a voxel included
C18_AllAccumulated ==
  [][AddSliceReturned =>
       LET tab == SliceTable(ff_in)
       IN \A p \in GridIdx(D) :
            /\ volume'[p] - volume[p] = SliceTotal(tab, p, "v")
            /\ counts'[p] - counts[p] = SliceTotal(tab, p, "c")]_vars

\* the same for slices none of whose samples share a voxel in a corner call
AccumulatedWithoutSharing ==
  [][(AddSliceReturned /\ ~Coincide(ff_in, D)) =>
       LET tab == SliceTable(ff_in)
       IN \A p \in GridIdx(D) :
            /\ volume'[p] - volume[p] = SliceTotal(tab, p, "v")
            /\ counts'[p] - counts[p] = SliceTotal(tab, p, "c")]_vars

(***************************************************************************)
(* Claims about the streams of main during the loop                        *)
(***************************************************************************)
BetweenImages == pc = "loop"

\* the slices of the images inserted into a stream so far
SlicesOf(stream) ==
  LET into == InsertedInto(stream)
  IN [n \in 1..Len(into) |-> data[into[n] + 1].ff]

RECURSIVE SumOfSlices(_, _, _, _)
SumOfSlices(slices, n, p, field) ==
  IF n = 0 THEN 0
  ELSE SliceTotal(SliceTable(slices[n]), p, field)
         + SumOfSlices(slices, n - 1, p, field)

\* a stream holds the complete contributions of the images routed to it
HoldsItsImages(stream, vol, cnt) ==
  LET slices == SlicesOf(stream)
  IN \A p \in GridIdx(D) :
       /\ vol[p] = SumOfSlices(slices, Len(slices), p, "v")
       /\ cnt[p] = SumOfSlices(slices, Len(slices), p, "c")

NoSharing == \A n \in 1..Len(data) : ~Coincide(data[n].ff, D)

StreamsHoldImages ==
  /\ HoldsItsImages("full", volume_full, counts_full)
  /\ HoldsItsImages("half1", volume_half1, counts_half1)
  /\ HoldsItsImages("half2", volume_half2, counts_half2)

\* C16: between two images of the loop every stream's grids are the sums of
\* the complete contributions of the images processed so far and routed to it
C16_PartialSums == BetweenImages => StreamsHoldImages

\* the same for images none of whose samples share a voxel in a corner call
PartialSumsWithoutSharing == (BetweenImages /\ NoSharing) => StreamsHoldImages

FullIsSumOfHalves ==
  /\ volume_full = GridSum(volume_half1, volume_half2)
  /\ counts_full = GridSum(counts_half1, counts_half2)
  /\ Len(InsertedInto("half1")) + Len(InsertedInto("half2")) = i

\* C19: with half maps, after every completed image and before the flooring
\* the full grids are the elementwise sums of the half grids, and the two
\* halves hold as many images as were processed
C19_FullIsSumOfHalves == (BetweenImages /\ args.half_maps) => FullIsSumOfHalves

\* the same for images none of whose samples share a voxel in a corner call
HalvesWithoutSharing ==
  (BetweenImages /\ args.half_maps /\ NoSharing) => FullIsSumOfHalves

WeightsSound(vol, cnt) ==
  \A p \in GridIdx(D) : cnt[p] >= 0 /\ (cnt[p] = 0 => vol[p] = 0)

StreamsSound ==
  /\ WeightsSound(volume_full, counts_full)
  /\ WeightsSound(volume_half1, counts_half1)
  /\ WeightsSound(volume_half2, counts_half2)

\* C20: after any add_slice calls on zero grids no weight is negative and a
\* voxel of weight 0 has value 0
C20_ZeroWeightZeroValue == pc \in {"loop", "half"} => StreamsSound

\* the same for images none of whose samples share a voxel in a corner call
SoundWithoutSharing == (pc \in {"loop", "half"} /\ NoSharing) => StreamsSound

(***************************************************************************)
(* invert_contrast (commands_utils/invert_contrast.py)                     *)
(*                                                                         *)
(* A path is the sequence of its characters.  A pixel is <<sign, mag>>,    *)
(* sign 1 for a set sign bit; its bytes are the magnitude followed by the  *)
(* sign (little-endian floats end with the byte that holds the sign bit).  *)
(* A file is its header followed by its data bytes.                        *)
(***************************************************************************)
MaxChunks == 2

MrcSuffix == <<".", "m", "r", "c">>

\* str.endswith
endswith(path, suffix) ==
  /\ Len(path) >= Len(suffix)
  /\ SubSeq(path, Len(path) - Len(suffix) + 1, Len(path)) = suffix

InputPaths ==
  {<<"a", ".", "m", "r", "c">>, <<"a", ".", "m", "r", "c", "s">>,
   <<"m", "r", "c">>}

\* args.o is None when -o is not given
OutputPaths ==
  {Some(<<"b", ".", "m", "r", "c">>), Some(<<"b", ".", "t", "x", "t">>),
   Some(<<"b", ".", "m", "r", "c", ".", "g", "z">>), None}

ImageSizes == {1, 2}

\* a header: the pixels of an image and the number of images
Headers == {[nx |-> n, nz |-> k] : n \in ImageSizes, k \in 0..MaxChunks}

InputFiles ==
  UNION {{<<h>> \o b : b \in [1..(2 * h.nx * h.nz) -> {0, 1}]} : h \in Headers}

\* MRCHeader.parse: the header of the file
MRCHeader_parse(file) == file[1]

\* pixel k of the data that follow the header
PixelAt(file, k) == <<file[1 + 2 * k], file[2 * k]>>

\* ImageSource.from_mrcs, iterated: the images of the file, in file order
from_mrcs(file) ==
  LET h == file[1] IN
  [n \in 1..h.nz |-> [k \in 1..h.nx |-> PixelAt(file, (n - 1) * h.nx + k)]]

\* a pixel left as it is
KeepPixel(v) == v

\* v * -1: the sign bit flips, the magnitude stays
Negate(v) == <<1 - v[1], v[2]>>

\* chunk *= -1
NegateChunk(chunk) == [k \in DOMAIN chunk |-> Negate(chunk[k])]

\* np.array(chunk).tobytes()
RECURSIVE tobytes(_)
tobytes(chunk) ==
  IF chunk = <<>> THEN <<>>
  ELSE <<chunk[1][2], chunk[1][1]>> \o tobytes(Tail(chunk))

\* the file args.input names in the current invocation
CurrentInput == input[Len(input)]

(***************************************************************************)
(* SpecInvert: invert_contrast run on a drawn command line and input file, *)
(* then run again on the file it wrote                                     *)
(***************************************************************************)
InitInvert ==
  /\ inv_args \in [input : InputPaths, o : OutputPaths]
  /\ input \in {<<file>> : file \in InputFiles}
  /\ header = None
  /\ src = None
  /\ out_f = None
  /\ chunk_no = 0
  /\ pc = "invert"
  /\ D = 0
  /\ volume = <<>> /\ counts = <<>>
  /\ regularized_counts = <<>>
  /\ data = <<>>
  /\ SliceIdle /\ RegIdle /\ MainIdle /\ StreamsIdle /\ FscIdle

invFrame ==
  <<D, volume, counts, regularized_counts, data, sliceVars, regVars,
    streamVars, mainVars, fscVars>>

\* lines 19-20: the two asserts; None has no endswith
AssertSuffixes ==
  /\ pc = "invert"
  /\ pc' = IF ~endswith(inv_args.input, MrcSuffix) THEN "AssertionError"
           ELSE IF inv_args.o = None THEN "AttributeError"
           ELSE IF ~endswith(inv_args.o[1], MrcSuffix) THEN "AssertionError"
           ELSE "parse"
  /\ UNCHANGED <<invFrame, invVars>>

\* line 21
ParseHeader ==
  /\ pc = "parse"
  /\ header' = Some(MRCHeader_parse(CurrentInput))
  /\ pc' = "source"
  /\ UNCHANGED <<invFrame, inv_args, input, src, out_f, chunk_no>>

\* line 22
FromMrcs ==
  /\ pc = "source"
  /\ src' = Some(from_mrcs(CurrentInput))
  /\ pc' = "open"
  /\ UNCHANGED <<invFrame, inv_args, input, header, out_f, chunk_no>>

\* line 24: open(args.o, "wb")
OpenOutput ==
  /\ pc = "open"
  /\ out_f' = Some(<<>>)
  /\ pc' = "header"
  /\ UNCHANGED <<invFrame, inv_args, input, header, src, chunk_no>>

\* line 25: header.write(f)
WriteHeader ==
  /\ pc = "header"
  /\ out_f' = Some(out_f[1] \o <<header[1]>>)
  /\ pc' = "chunks"
  /\ UNCHANGED <<invFrame, inv_args, input, header, src, chunk_no>>

\* lines 26-28: one pass of the loop
WriteChunk ==
  /\ pc = "chunks"
  /\ chunk_no < Len(src[1])
  /\ LET chunk == NegateChunk(src[1][chunk_no + 1]) IN
       out_f' = Some(out_f[1] \o tobytes(chunk))
  /\ chunk_no' = chunk_no + 1
  /\ UNCHANGED <<invFrame, pc, inv_args, input, header, src>>

\* lines 26-29: the source is exhausted, the file is closed
CloseOutput ==
  /\ pc = "chunks"
  /\ chunk_no = Len(src[1])
  /\ pc' = "inverted"
  /\ UNCHANGED <<invFrame, invVars>>

\* the command run again, its input the file just written
InvertAgain ==
  /\ pc = "inverted"
  /\ Len(input) = 1
  /\ \E o \in OutputPaths :
       inv_args' = [input |-> inv_args.o[1], o |-> o]
  /\ input' = Append(input, out_f[1])
  /\ header' = None
  /\ src' = None
  /\ out_f' = None
  /\ chunk_no' = 0
  /\ pc' = "invert"
  /\ UNCHANGED invFrame

NextInvert ==
  \/ AssertSuffixes
  \/ ParseHeader
  \/ FromMrcs
  \/ OpenOutput
  \/ WriteHeader
  \/ WriteChunk
  \/ CloseOutput
  \/ InvertAgain

SpecInvert == InitInvert /\ [][NextInvert]_vars

(***************************************************************************)
(* Claims about invert_contrast                                            *)
(***************************************************************************)
\* a path that is not an .mrc path, or no output path at all
BadPath ==
  /\ inv_args # <<>>
  /\ \/ ~endswith(inv_args.input, MrcSuffix)
     \/ inv_args.o = None
     \/ ~endswith(inv_args.o[1], MrcSuffix)

\* the number of pixels a file holds after its header
PixelsOf(file) == (Len(file) - 1) \div 2

\* the written file: the header of the input, then every pixel of the input
\* with its sign flipped, in the order of the input
InvertedCopy ==
  /\ out_f # None
  /\ Len(out_f[1]) = Len(CurrentInput)
  /\ out_f[1][1] = CurrentInput[1]
  /\ \A k \in 1..PixelsOf(CurrentInput) :
       LET v == PixelAt(CurrentInput, k) IN
       PixelAt(out_f[1], k) = <<IF v[1] = 0 THEN 1 ELSE 0, v[2]>>

InvertRefused == BadPath /\ pc \in {"AssertionError", "AttributeError"}

====
